---------------------------- MODULE Spec2Model ----------------------------
(***************************************************************************)
(* A model of doa.py, the matching-and-ranking engine of the chatbot      *)
(* service: text normalisation, keyword extraction, match scoring, intent  *)
(* detection, the two corpus searches, deduplication, response formatting   *)
(* and the /chat request handler.                                          *)
(*                                                                         *)
(* Text is modelled by TLA+ strings, character by character.  Scores are   *)
(* modelled in thousandths: Python's round(x, 3) of a score is the integer *)
(* 1000 * score here, so 0.1 is 100 and 1.0 is 1000.                       *)
(***************************************************************************)
EXTENDS Integers, Sequences, FiniteSets, TLC

VARIABLES
    DOA_DATA,     \* doa.py:42   the doa corpus, loaded at start-up
    HADIS_DATA,   \* doa.py:43   the hadis corpus, loaded at start-up
    INTENTS,      \* doa.py:44   the intent-rule table, loaded at start-up
    request,      \* the JSON body of the last /chat request
    response,     \* the payload the last /chat request returned
    calls,        \* the calls the last /chat request made, in order
    pool,         \* the candidate pool the last /chat request handed to deduplicate_by_id
    ranked,       \* the handler's `results` after deduplication and the final sort
    intent,       \* what detect_intent returned in the last /chat request
    stage,        \* the return statement the last /chat request left by
    args,         \* the arguments of the last direct call of a function
    ret           \* what that call returned

vars ==
    <<DOA_DATA, HADIS_DATA, INTENTS, request, response, calls, pool, ranked, intent, stage,
      args, ret>>

-----------------------------------------------------------------------------
(* Bounds of the model. *)

\* Longest corpus (number of items) a /chat specification loads.
MaxCorpus == 3
\* Longest query keyword list handed directly to calculate_match_score.
MaxKeywords == 3
\* Longest result list handed directly to deduplicate_by_id and format_response.
MaxResults == 4
\* Largest top_k handed directly to search_doa and search_hadis.
MaxTopK == 2

-----------------------------------------------------------------------------
(* Strings. *)

LOWERCASE == "abcdefghijklmnopqrstuvwxyz"
UPPERCASE == "ABCDEFGHIJKLMNOPQRSTUVWXYZ"
DIGITS == "0123456789"

Chr(s, i) == SubSeq(s, i, i)

\* The characters of s, as a set.
Chars(s) == {Chr(s, i) : i \in 1..Len(s)}

LETTERS_AND_DIGITS == Chars(LOWERCASE) \cup Chars(DIGITS)

\* str.lower() on one character.
LOWER_OF == [c \in Chars(UPPERCASE) |->
                Chr(LOWERCASE, CHOOSE i \in 1..Len(UPPERCASE) : Chr(UPPERCASE, i) = c)]

\* Python's `needle in hay` for two strings.
Contains(needle, hay) ==
    \E i \in 0..(Len(hay) - Len(needle)) : SubSeq(hay, i + 1, i + Len(needle)) = needle

\* \s of the regular expressions and of str.split() and str.strip().
IsSpace(c) == c \in {" ", "\t", "\n"}

lower_char(c) == IF c \in DOMAIN LOWER_OF THEN LOWER_OF[c] ELSE c

RECURSIVE lower(_)
lower(s) == IF s = "" THEN "" ELSE lower_char(Head(s)) \o lower(Tail(s))

RECURSIVE lstrip(_)
lstrip(s) == IF s # "" /\ IsSpace(Head(s)) THEN lstrip(Tail(s)) ELSE s

RECURSIVE rstrip(_)
rstrip(s) ==
    IF s # "" /\ IsSpace(Chr(s, Len(s))) THEN rstrip(SubSeq(s, 1, Len(s) - 1)) ELSE s

strip(s) == rstrip(lstrip(s))

\* re.sub(r"\s+", " ", s): every run of whitespace becomes one space.
RECURSIVE collapse_spaces(_)
collapse_spaces(s) ==
    IF s = "" THEN ""
    ELSE IF IsSpace(Head(s)) THEN " " \o collapse_spaces(lstrip(s))
    ELSE Head(s) \o collapse_spaces(Tail(s))

\* re.sub(r"[^a-z0-9\s]", "", s): only letters, digits and whitespace stay.
RECURSIVE remove_special(_)
remove_special(s) ==
    IF s = "" THEN ""
    ELSE LET c == Head(s)
             keep == c \in LETTERS_AND_DIGITS \/ IsSpace(c)
         IN (IF keep THEN c ELSE "") \o remove_special(Tail(s))

\* str.split(): the maximal runs of non-whitespace, in order.
RECURSIVE split_from(_, _)
split_from(s, word) ==
    IF s = "" THEN (IF word = "" THEN <<>> ELSE <<word>>)
    ELSE IF IsSpace(Head(s))
         THEN (IF word = "" THEN <<>> ELSE <<word>>) \o split_from(Tail(s), "")
         ELSE split_from(Tail(s), word \o Head(s))

split(s) == split_from(s, "")

\* " ".join(words)
RECURSIVE join(_)
join(words) ==
    IF words = <<>> THEN ""
    ELSE IF Len(words) = 1 THEN words[1]
    ELSE words[1] \o " " \o join(Tail(words))

\* str(n) for a natural number.
RECURSIVE ToStr(_)
ToStr(n) ==
    IF n < 10 THEN Chr(DIGITS, n + 1)
    ELSE ToStr(n \div 10) \o Chr(DIGITS, (n % 10) + 1)

Range(seq) == {seq[i] : i \in 1..Len(seq)}

Min(a, b) == IF a < b THEN a ELSE b

-----------------------------------------------------------------------------
(* NLP functions. *)

STOPWORDS ==
    {"yang", "untuk", "pada", "adalah", "dari", "di", "ke", "dalam",
     "dengan", "oleh", "ini", "itu", "dan", "atau", "akan", "ada",
     "bisa", "dapat", "juga", "lebih", "saat", "ketika", "tentang",
     "apa", "siapa", "mana", "bagaimana", "kenapa", "kapan", "dimana"}

\* The stemmer is Sastrawi's, a library: it is modelled on the words the
\* model uses.  It reduces an affixed word to its root and leaves a root alone.
stem_word(w) ==
    CASE w = "kesabaran" -> "sabar"
      [] w = "bersabar"  -> "sabar"
      [] w = "makanan"   -> "makan"
      [] w = "memohon"   -> "mohon"
      [] OTHER           -> w

\* stemmer.stem(text): the words of the text, each stemmed, joined by one space.
stem(text) ==
    LET words == split(text)
    IN join([i \in 1..Len(words) |-> stem_word(words[i])])

normalize(text) == collapse_spaces(strip(lower(text)))

preprocess(text) == stem(remove_special(lower(text)))

get_keywords(text) ==
    SelectSeq(split(preprocess(text)), LAMBDA w : Len(w) > 1 /\ w \notin STOPWORDS)

-----------------------------------------------------------------------------
(* Smart matching.  Scores are in thousandths. *)

\* Each keyword match adds 0.2.
KEYWORD_BONUS == 200
\* An exact phrase match adds 0.3.
PHRASE_BONUS == 300
\* A partial word match adds 0.1 per query word.
PARTIAL_BONUS == 100
\* Partial matches are only for words of 4 or more characters.
PARTIAL_MIN_LEN == 4
\* 1.0, the clamp of a score.
MAX_SCORE == 1000

\* a / b rounded to the nearest integer (b > 0).  Python's round(x, 3) rounds
\* a tie to even, on the floating-point value; a score 1000 * overlap / n has a
\* tie only when 16 divides n, which no keyword list of the model reaches.
RoundDiv(a, b) == (2 * a + b) \div (2 * b)

\* clamp_score without the clamp.
unclamped_score(total_n, n) == total_n

\* min(total, 1.0), on a total in units of 1 / (1000 * n).
clamp_score(total_n, n) == Min(total_n, MAX_SCORE * n)

\* target_keywords is <<>> for None and for an empty list: the code tests
\* `if target_keywords:` and both are false.
calculate_match_score(query_keywords, target_text, target_keywords) ==
    LET target_words == Range(split(preprocess(target_text)))
        query_set    == Range(query_keywords)
        overlap      == Cardinality(query_set \cap target_words)
        n            == Cardinality(query_set)
        target_kw_set ==
            UNION {Range(get_keywords(target_keywords[i])) : i \in 1..Len(target_keywords)}
        keyword_bonus ==
            IF target_keywords # <<>>
            THEN Cardinality(query_set \cap target_kw_set) * KEYWORD_BONUS
            ELSE 0
        original_query == join(query_keywords)
        phrase_bonus ==
            IF Contains(original_query, preprocess(target_text)) THEN PHRASE_BONUS ELSE 0
        partial_bonus ==
            PARTIAL_BONUS * Cardinality(
                {qw \in query_set :
                    \E tw \in target_words :
                        /\ Len(qw) >= PARTIAL_MIN_LEN /\ Len(tw) >= PARTIAL_MIN_LEN
                        /\ (Contains(qw, tw) \/ Contains(tw, qw))})
        \* base_score + the bonuses, in units of 1 / (1000 * n)
        total_n == MAX_SCORE * overlap + n * (keyword_bonus + phrase_bonus + partial_bonus)
    IN IF n = 0 THEN 0
       ELSE RoundDiv(clamp_score(total_n, n), n)

-----------------------------------------------------------------------------
(* Loading, and Python values. *)

\* Python's None (as the value of intent, and as a missing dict entry).
None == [none |-> TRUE]

\* A JSON file holds a list or an object; an object keeps the order of its keys.
JsonList(items) == [type |-> "list", items |-> items]
JsonDict(items) == [type |-> "dict", items |-> items]

\* load_json(path): a missing file gives the empty list []; file is None then.
load_json(file) == IF file = None THEN JsonList(<<>>) ELSE file

\* {**item, "source_type": tag}
with_source_type(item, tag) ==
    [k \in (DOMAIN item) \cup {"source_type"} |->
        IF k = "source_type" THEN tag ELSE item[k]]

\* d.get(key, default) for a string-valued entry.
get(d, key, default) == IF key \in DOMAIN d THEN d[key] ELSE default

-----------------------------------------------------------------------------
(* Intent detection. *)

\* An exact match of a trigger phrase in the query.
EXACT_MATCH_SCORE == 1000
\* A stemmed keyword match of a trigger phrase.
STEM_MATCH_SCORE == 500
\* The least score detect_intent returns an intent for.
MIN_INTENT_SCORE == 500
\* The least score of an intent /chat searches by.
STRONG_INTENT_SCORE == 1000

RECURSIVE SumSeq(_)
SumSeq(s) == IF s = <<>> THEN 0 ELSE Head(s) + SumSeq(Tail(s))

\* What one trigger phrase adds to its rule's score.
keyword_score(keyword, query_lower, query_keywords) ==
    IF Contains(lower(keyword), query_lower) THEN EXACT_MATCH_SCORE
    ELSE IF \E kw_word \in Range(get_keywords(keyword)) : kw_word \in query_keywords
         THEN STEM_MATCH_SCORE
         ELSE 0

\* The score of one rule: the body of the loop over INTENTS.items().
intent_score(intent_data, query_lower, query_keywords) ==
    SumSeq([i \in 1..Len(intent_data.keywords) |->
              keyword_score(intent_data.keywords[i], query_lower, query_keywords)])

\* beats with >= for >: a later rule of equal score replaces the best.
beats_or_ties(score, best_score) == score >= best_score

\* `if score > best_score`: a later rule replaces the best only with a higher score.
beats(score, best_score) == score > best_score

\* The loop's state after the first i rules.
RECURSIVE intent_loop(_, _, _, _)
intent_loop(items, i, query_lower, query_keywords) ==
    IF i = 0 THEN [best_intent |-> None, best_score |-> 0]
    ELSE LET prev  == intent_loop(items, i - 1, query_lower, query_keywords)
             rule  == items[i]
             score == intent_score(rule, query_lower, query_keywords)
         IN IF beats(score, prev.best_score)
            THEN [best_intent |->
                     [name            |-> rule.name,
                      type            |-> rule.type,
                      canonical_query |-> rule.canonical_query,
                      score           |-> score,
                      matched_keywords |->
                          SelectSeq(rule.keywords,
                                    LAMBDA k : keyword_score(k, query_lower, query_keywords) > 0)],
                  best_score |-> score]
            ELSE prev

\* INTENTS.items() raises AttributeError when INTENTS is a list.
detect_intent_raises(intents) == intents.type # "dict"

detect_intent_in(intents, query) ==
    LET query_lower    == lower(query)
        query_keywords == Range(get_keywords(query))
        best == intent_loop(intents.items, Len(intents.items), query_lower, query_keywords)
    IN IF best.best_score >= MIN_INTENT_SCORE THEN best.best_intent ELSE None

detect_intent(query) == detect_intent_in(INTENTS, query)

-----------------------------------------------------------------------------
(* Search. *)

\* A result is kept when its score is above 0.1.
SCORE_THRESHOLD == 100
\* The default top_k of the two searches.
DEFAULT_TOP_K == 10

\* An insertion that puts a result before the results of equal score: a sort
\* that is not stable.
RECURSIVE insert_before_equal(_, _)
insert_before_equal(s, x) ==
    IF s = <<>> THEN <<x>>
    ELSE IF Head(s).score > x.score THEN <<Head(s)>> \o insert_before_equal(Tail(s), x)
    ELSE <<x>> \o s

\* sorted(results, key=lambda x: x["score"], reverse=True): Python's sort is
\* stable, also with reverse=True: results of equal score keep their order.
RECURSIVE insert_by_score(_, _)
insert_by_score(s, x) ==
    IF s = <<>> THEN <<x>>
    ELSE IF Head(s).score >= x.score THEN <<Head(s)>> \o insert_by_score(Tail(s), x)
    ELSE <<x>> \o s

RECURSIVE sorted_by_score(_)
sorted_by_score(results) ==
    IF results = <<>> THEN <<>>
    ELSE insert_by_score(sorted_by_score(SubSeq(results, 1, Len(results) - 1)),
                         results[Len(results)])

\* take with its bound off by one: results[:k + 1].
take_one_more(results, k) == SubSeq(results, 1, Min(k + 1, Len(results)))

\* results[:k]
take(results, k) == SubSeq(results, 1, Min(k, Len(results)))

\* doa['judul'] and doa['arti'] raise KeyError on an item without the key.
search_doa_raises(data) ==
    \E i \in 1..Len(data) : ~({"judul", "arti"} \subseteq DOMAIN data[i])

doa_searchable(doa) == doa.judul \o " " \o doa.arti \o " " \o get(doa, "latin", "")

\* `if score > 0.1`
above_threshold(score) == score > SCORE_THRESHOLD

search_doa_in(data, query_keywords, top_k) ==
    LET scored == [i \in 1..Len(data) |->
                     [score |-> calculate_match_score(query_keywords,
                                                      doa_searchable(data[i]), <<>>),
                      data  |-> with_source_type(data[i], "doa")]]
        results == SelectSeq(scored, LAMBDA r : above_threshold(r.score))
    IN take(sorted_by_score(results), top_k)

search_doa(query_keywords, top_k) == search_doa_in(DOA_DATA.items, query_keywords, top_k)

\* hadis['tema'] and hadis['arti'] raise KeyError on an item without the key.
search_hadis_raises(data) ==
    \E i \in 1..Len(data) : ~({"tema", "arti"} \subseteq DOMAIN data[i])

hadis_searchable(hadis) == hadis.tema \o " " \o hadis.arti

search_hadis_in(data, query_keywords, top_k) ==
    LET scored == [i \in 1..Len(data) |->
                     [score |-> calculate_match_score(query_keywords,
                                                      hadis_searchable(data[i]),
                                                      IF "kata_kunci" \in DOMAIN data[i]
                                                      THEN data[i].kata_kunci ELSE <<>>),
                      data  |-> with_source_type(data[i], "hadis")]]
        results == SelectSeq(scored, LAMBDA r : above_threshold(r.score))
    IN take(sorted_by_score(results), top_k)

search_hadis(query_keywords, top_k) ==
    search_hadis_in(HADIS_DATA.items, query_keywords, top_k)

-----------------------------------------------------------------------------
(* Deduplication. *)

\* result["data"].get("id"); "" stands for None too: `if item_id` is false for both.
item_id_of(result) == get(result.data, "id", "")

\* is_new_id without the test of the id itself: `if item_id not in seen_ids`.
is_unseen_id(item_id, seen_ids) == item_id \notin seen_ids

\* `if item_id and item_id not in seen_ids`
is_new_id(item_id, seen_ids) == item_id # "" /\ item_id \notin seen_ids

\* The loop's state after the first i results.
RECURSIVE dedup_loop(_, _)
dedup_loop(results, i) ==
    IF i = 0 THEN [seen_ids |-> {}, unique |-> <<>>]
    ELSE LET prev    == dedup_loop(results, i - 1)
             item_id == item_id_of(results[i])
         IN IF is_new_id(item_id, prev.seen_ids)
            THEN [seen_ids |-> prev.seen_ids \cup {item_id},
                  unique   |-> Append(prev.unique, results[i])]
            ELSE prev

deduplicate_by_id(results) == dedup_loop(results, Len(results)).unique

-----------------------------------------------------------------------------
(* Response formatting.  The emoji of the messages are left out. *)

\* The number of results a payload shows.
RESULT_LIMIT == 3

format_response(results, query, an_intent) ==
    IF results = <<>>
    THEN [status |-> "ASK",
          message |-> "Maaf, belum menemukan hasil yang sesuai\n\nCoba dengan kata kunci lain ya!",
          suggestions |-> <<"Gunakan kata kunci lebih spesifik",
                            "Contoh: 'doa sebelum makan', 'hadis tentang sabar'">>,
          examples |-> <<"doa keluar rumah", "hadis tentang ilmu", "doa untuk orang sakit">>]
    ELSE
    LET doa_results   == SelectSeq(results, LAMBDA r : r.data.source_type = "doa")
        hadis_results == SelectSeq(results, LAMBDA r : r.data.source_type = "hadis")
        total       == Len(results)
        doa_count   == Len(doa_results)
        hadis_count == Len(hadis_results)
        found ==
            IF an_intent # None
            THEN "Ditemukan untuk '" \o an_intent.name \o "'"
            ELSE IF doa_results # <<>> /\ hadis_results # <<>>
                 THEN "Ditemukan " \o ToStr(doa_count) \o " doa dan "
                          \o ToStr(hadis_count) \o " hadis"
                 ELSE IF doa_results # <<>>
                      THEN "Ditemukan " \o ToStr(doa_count) \o " doa"
                      ELSE "Ditemukan " \o ToStr(hadis_count) \o " hadis"
        more ==
            IF total > RESULT_LIMIT
            THEN " (menampilkan 3 teratas dari " \o ToStr(total) \o " hasil)"
            ELSE ""
    IN [status  |-> "OK",
        message |-> found \o more,
        data    |-> take(results, RESULT_LIMIT),
        summary |-> [total       |-> total,
                     doa_count   |-> doa_count,
                     hadis_count |-> hadis_count,
                     showing     |-> Min(RESULT_LIMIT, total)]]

-----------------------------------------------------------------------------
(* The /chat endpoint. *)

greetings == {"halo", "hai", "mulai", "assalamualaikum", "salam", "test", "tes"}

\* What get_time_based_greeting can return: it asks a web service for the
\* time zone and reads the clock, so its result is any of its five strings.
TIME_GREETINGS ==
    {"Selamat pagi", "Selamat siang", "Selamat sore", "Selamat malam", "Selamat datang"}

\* One entry of calls: the function called and, for a search, its keywords.
Call(fn, kw) == [fn |-> fn, kw |-> kw]

ASK_EMPTY_QUERY ==
    [status |-> "ASK",
     message |-> "Silakan ketik kebutuhan doa atau hadis",
     examples |-> <<"doa sebelum makan", "hadis tentang sabar", "doa naik kendaraan">>]

ASK_GREETING(query, time_greeting) ==
    LET salam == IF query \in {"assalamualaikum", "salam"} THEN "Wa'alaikumsalam" ELSE "Halo"
    IN [status |-> "ASK",
        message |-> salam \o ", " \o time_greeting
            \o "\n\nSaya Asisten Islami. Silakan tanyakan doa atau hadis yang kamu butuhkan!",
        examples |-> <<"doa keluar rumah", "hadis tentang ilmu", "doa ketika sakit">>]

ASK_NO_KEYWORDS ==
    [status |-> "ASK",
     message |-> "Kata kunci terlalu umum. Coba lebih spesifik ya!",
     examples |-> <<"doa sebelum tidur", "hadis tentang akhlak", "doa memohon rezeki">>]

\* The payload of the handler's `except Exception`, sent with status 500.
ERROR_PAYLOAD == [status |-> "ERROR", message |-> "Maaf, terjadi kesalahan server"]

\* `if intent and intent["score"] >= 1.0`
is_strong(an_intent) == an_intent # None /\ an_intent.score >= STRONG_INTENT_SCORE

\* `if len(results) < 3` of the intent-based search: top up from the other corpus.
needs_top_up(results) == Len(results) < 3

\* needs_general_search without its second test: `if not results`.
needs_general_search_if_empty(results) == results = <<>>

\* `if not results or len(results) < 2`: run the general search.
needs_general_search(results) == results = <<>> \/ Len(results) < 2

\* A step of the handler: whether it raised, its results, the calls it made.
Step(raised, results, made) == [raised |-> raised, results |-> results, calls |-> made]

\* The intent-based search (lines 359-371).
intent_search(an_intent, query_keywords) ==
    IF ~is_strong(an_intent) THEN Step(FALSE, <<>>, <<>>)
    ELSE
    LET canonical_keywords == get_keywords(an_intent.canonical_query)
        first_call  == Call(IF an_intent.type = "doa" THEN "search_doa" ELSE "search_hadis",
                            canonical_keywords)
        second_call == Call(IF an_intent.type = "doa" THEN "search_hadis" ELSE "search_doa",
                            query_keywords)
        first_raises ==
            IF an_intent.type = "doa" THEN search_doa_raises(DOA_DATA.items)
            ELSE search_hadis_raises(HADIS_DATA.items)
        second_raises ==
            IF an_intent.type = "doa" THEN search_hadis_raises(HADIS_DATA.items)
            ELSE search_doa_raises(DOA_DATA.items)
        first ==
            IF an_intent.type = "doa" THEN search_doa(canonical_keywords, DEFAULT_TOP_K)
            ELSE search_hadis(canonical_keywords, DEFAULT_TOP_K)
        second ==
            IF an_intent.type = "doa" THEN search_hadis(query_keywords, DEFAULT_TOP_K)
            ELSE search_doa(query_keywords, DEFAULT_TOP_K)
    IN IF first_raises THEN Step(TRUE, <<>>, <<first_call>>)
       ELSE IF ~needs_top_up(first) THEN Step(FALSE, first, <<first_call>>)
       ELSE IF second_raises THEN Step(TRUE, <<>>, <<first_call, second_call>>)
       ELSE Step(FALSE, first \o second, <<first_call, second_call>>)

\* The general search (lines 374-377), after an intent-based search that left results.
general_search(results, query_keywords) ==
    LET doa_call   == Call("search_doa", query_keywords)
        hadis_call == Call("search_hadis", query_keywords)
    IN IF ~needs_general_search(results) THEN Step(FALSE, results, <<>>)
       ELSE IF search_doa_raises(DOA_DATA.items) THEN Step(TRUE, <<>>, <<doa_call>>)
       ELSE IF search_hadis_raises(HADIS_DATA.items)
            THEN Step(TRUE, <<>>, <<doa_call, hadis_call>>)
       ELSE Step(FALSE,
                 search_doa(query_keywords, DEFAULT_TOP_K)
                     \o search_hadis(query_keywords, DEFAULT_TOP_K),
                 <<doa_call, hadis_call>>)

\* What a request leaves behind: the payload, the return statement taken, the
\* calls made, the intent detected, the pool handed to deduplicate_by_id and
\* the results after deduplication and sort.
Outcome(payload, at, made, an_intent, candidates, final) ==
    [response |-> payload, stage |-> at, calls |-> made, intent |-> an_intent,
     pool |-> candidates, ranked |-> final]

\* `results = deduplicate_by_id(results)` and the sort that follows it.
dedup_and_sort(results) == sorted_by_score(deduplicate_by_id(results))

\* The handler of POST /chat, for the JSON body data; time_greeting is what
\* get_time_based_greeting returns if it is called.
chat(data, time_greeting) ==
    LET query == normalize(get(data, "query", ""))
        query_keywords == get_keywords(query)
        detect == Call("detect_intent", <<>>)
        an_intent == detect_intent(query)
        by_intent == intent_search(an_intent, query_keywords)
        general == general_search(by_intent.results, query_keywords)
        made == <<detect>> \o by_intent.calls \o general.calls
        final == dedup_and_sort(general.results)
    IN IF query = "" THEN Outcome(ASK_EMPTY_QUERY, "empty_query", <<>>, None, <<>>, <<>>)
       ELSE IF query \in greetings
            THEN Outcome(ASK_GREETING(query, time_greeting), "greeting",
                         <<Call("get_time_based_greeting", <<>>)>>, None, <<>>, <<>>)
       ELSE IF query_keywords = <<>>
            THEN Outcome(ASK_NO_KEYWORDS, "no_keywords", <<>>, None, <<>>, <<>>)
       ELSE IF detect_intent_raises(INTENTS)
            THEN Outcome(ERROR_PAYLOAD, "error", <<detect>>, None, <<>>, <<>>)
       ELSE IF by_intent.raised
            THEN Outcome(ERROR_PAYLOAD, "error", <<detect>> \o by_intent.calls, an_intent, <<>>, <<>>)
       ELSE IF general.raised
            THEN Outcome(ERROR_PAYLOAD, "error", made, an_intent, <<>>, <<>>)
       ELSE Outcome(format_response(final, query, an_intent), "respond",
                    made \o <<Call("deduplicate_by_id", <<>>), Call("format_response", <<>>)>>,
                    an_intent, general.results, final)

-----------------------------------------------------------------------------
(* The data the model loads and the requests it sends. *)

\* The sequences of at most n different elements of S.
SeqsWithoutRepeats(S, n) ==
    UNION {{q \in [1..k -> S] : \A i, j \in 1..k : i # j => q[i] # q[j]} : k \in 0..n}

\* The sequences of at most n elements of S.
SeqsUpTo(S, n) == UNION {[1..k -> S] : k \in 0..n}

\* Doa items: two complete ones, one without latin text, one without its
\* `arti` field and one without an id.
DOA_ITEMS ==
    {[id |-> "1", judul |-> "Doa Sebelum Makan", arti |-> "Berkahilah rezeki kami",
      latin |-> "Allahumma barik lana"],
     [id |-> "2", judul |-> "Doa Sesudah Makan", arti |-> "Segala puji bagi Allah"],
     [id |-> "3", judul |-> "Doa Tidur"],
     [judul |-> "Doa Sabar", arti |-> "Berilah kami kesabaran"]}

\* Hadis items: one whose id is also a doa's, one without keyword phrases, one
\* without its `tema` field.
HADIS_ITEMS ==
    {[id |-> "2", tema |-> "Makan", arti |-> "Makan dengan tangan kanan",
      kata_kunci |-> <<"adab makan">>],
     [id |-> "h2", tema |-> "Sabar", arti |-> "Sabar itu cahaya bagi kami"],
     [id |-> "h3", arti |-> "Menuntut ilmu itu wajib", kata_kunci |-> <<"ilmu">>]}

RULE_DOA_MAKAN ==
    [name |-> "doa_makan", type |-> "doa", keywords |-> <<"doa makan", "makan">>,
     canonical_query |-> "doa sebelum makan"]

RULE_HADIS_SABAR ==
    [name |-> "hadis_sabar", type |-> "hadis", keywords |-> <<"kesabaran", "sabar">>,
     canonical_query |-> "hadis tentang sabar"]

\* What the three files can hold; None is a file that does not exist.
DOA_FILES == {None} \cup {JsonList(q) : q \in SeqsWithoutRepeats(DOA_ITEMS, MaxCorpus)}

HADIS_FILES == {None} \cup {JsonList(q) : q \in SeqsWithoutRepeats(HADIS_ITEMS, MaxCorpus)}

INTENT_FILES ==
    {None,
     JsonDict(<<RULE_DOA_MAKAN, RULE_HADIS_SABAR>>),
     JsonDict(<<RULE_HADIS_SABAR, RULE_DOA_MAKAN>>)}

\* The JSON bodies of the requests; the first has no "query".
REQUESTS ==
    {[lat |-> "0"]} \cup
    {[query |-> q] : q \in {"  ", "Halo", " Salam ", "yang itu dan", "doa", "Doa  Makan!",
                            "makan sabar", "kesabaran", "makan kanan", "bagi kami"}}

-----------------------------------------------------------------------------
(* The service: loading at start-up, then /chat requests. *)

NoCall == /\ args = None /\ ret = None

Idle ==
    /\ request = None /\ response = None /\ calls = <<>> /\ pool = <<>>
    /\ ranked = <<>> /\ intent = None /\ stage = "idle"

Init ==
    /\ DOA_DATA \in {load_json(f) : f \in DOA_FILES}
    /\ HADIS_DATA \in {load_json(f) : f \in HADIS_FILES}
    /\ INTENTS \in {load_json(f) : f \in INTENT_FILES}
    /\ Idle
    /\ NoCall

\* Whether the request for data reaches the call of get_time_based_greeting.
is_greeting(data) == normalize(get(data, "query", "")) \in greetings

\* A /chat request, handled from its arrival to its return.
Chat ==
    /\ stage = "idle"
    /\ \E data \in REQUESTS :
       \* get_time_based_greeting is called for a greeting only
       \E time_greeting \in IF is_greeting(data) THEN TIME_GREETINGS ELSE {"Selamat datang"} :
        \E out \in {chat(data, time_greeting)} :
           /\ request' = data
           /\ response' = out.response
           /\ calls' = out.calls
           /\ pool' = out.pool
           /\ ranked' = out.ranked
           /\ intent' = out.intent
           /\ stage' = out.stage
           /\ UNCHANGED <<DOA_DATA, HADIS_DATA, INTENTS, args, ret>>

\* The payload is sent and nothing of the request stays: its variables were the
\* handler's locals.
Return ==
    /\ stage # "idle"
    /\ request' = None /\ response' = None /\ calls' = <<>> /\ pool' = <<>>
    /\ ranked' = <<>> /\ intent' = None /\ stage' = "idle"
    /\ UNCHANGED <<DOA_DATA, HADIS_DATA, INTENTS, args, ret>>

Next == Chat \/ Return

Spec == Init /\ [][Next]_vars

-----------------------------------------------------------------------------
(* calculate_match_score, called directly. *)

SCORE_WORDS == {"alam", "hari", "doa", "ilmu"}

SCORE_TEXTS == {"", "Doa malam hari", "Ilmuwan!", "hari"}

SCORE_PHRASES == {<<>>, <<"malam hari", "Doa">>}

\* Two keyword lists of the same keywords, a text and keyword phrases.
SCORE_ARGS ==
    {[query_keywords |-> q, other_keywords |-> o, target_text |-> t, target_keywords |-> k] :
        q \in SeqsUpTo(SCORE_WORDS, MaxKeywords),
        o \in SeqsUpTo(SCORE_WORDS, MaxKeywords),
        t \in SCORE_TEXTS, k \in SCORE_PHRASES}

NoData ==
    /\ DOA_DATA = load_json(None) /\ HADIS_DATA = load_json(None)
    /\ INTENTS = load_json(None)

InitScore ==
    /\ NoData /\ Idle
    /\ args \in {a \in SCORE_ARGS : Range(a.query_keywords) = Range(a.other_keywords)}
    /\ ret = None

\* Both keyword lists are scored against the same text and keyword phrases.
Score ==
    /\ ret = None
    /\ ret' = [fn |-> "calculate_match_score",
               score |-> calculate_match_score(args.query_keywords, args.target_text,
                                               args.target_keywords),
               other_score |-> calculate_match_score(args.other_keywords, args.target_text,
                                                     args.target_keywords)]
    /\ UNCHANGED <<DOA_DATA, HADIS_DATA, INTENTS, request, response, calls, pool, ranked,
                   intent, stage, args>>

NextScore == Score

SpecScore == InitScore /\ [][NextScore]_vars

-----------------------------------------------------------------------------
(* search_doa and search_hadis, called directly. *)

SEARCH_KEYWORDS ==
    {<<"doa", "makan">>, <<"doa", "sebelum", "makan">>, <<"kanan", "sabar">>, <<"bagi", "kami">>}

InitSearch ==
    /\ DOA_DATA \in {load_json(f) : f \in DOA_FILES}
    /\ HADIS_DATA \in {load_json(f) : f \in HADIS_FILES}
    /\ INTENTS = load_json(None)
    /\ Idle
    /\ args \in [query_keywords : SEARCH_KEYWORDS, top_k : (1..MaxTopK) \cup {DEFAULT_TOP_K}]
    /\ ret = None

SearchDoa ==
    /\ ret = None
    /\ ret' = IF search_doa_raises(DOA_DATA.items)
              THEN [fn |-> "search_doa", raised |-> TRUE, results |-> <<>>]
              ELSE [fn |-> "search_doa", raised |-> FALSE,
                    results |-> search_doa(args.query_keywords, args.top_k)]
    /\ UNCHANGED <<DOA_DATA, HADIS_DATA, INTENTS, request, response, calls, pool, ranked,
                   intent, stage, args>>

SearchHadis ==
    /\ ret = None
    /\ ret' = IF search_hadis_raises(HADIS_DATA.items)
              THEN [fn |-> "search_hadis", raised |-> TRUE, results |-> <<>>]
              ELSE [fn |-> "search_hadis", raised |-> FALSE,
                    results |-> search_hadis(args.query_keywords, args.top_k)]
    /\ UNCHANGED <<DOA_DATA, HADIS_DATA, INTENTS, request, response, calls, pool, ranked,
                   intent, stage, args>>

NextSearch == SearchDoa \/ SearchHadis

SpecSearch == InitSearch /\ [][NextSearch]_vars

-----------------------------------------------------------------------------
(* deduplicate_by_id and format_response, called directly. *)

\* Results as the searches build them: two of one id, one of another id, one
\* without an id and one whose id is empty.
RESULT_POOL ==
    {[score |-> 600,
      data |-> with_source_type([id |-> "2", judul |-> "Doa Sesudah Makan",
                                 arti |-> "Segala puji bagi Allah"], "doa")],
     [score |-> 1000,
      data |-> with_source_type([id |-> "2", tema |-> "Makan",
                                 arti |-> "Makan dengan tangan kanan"], "hadis")],
     [score |-> 800,
      data |-> with_source_type([id |-> "1", judul |-> "Doa Sebelum Makan",
                                 arti |-> "Berkahilah rezeki kami"], "doa")],
     [score |-> 300,
      data |-> with_source_type([judul |-> "Doa Sabar",
                                 arti |-> "Berilah kami kesabaran"], "doa")],
     [score |-> 500,
      data |-> with_source_type([id |-> "", tema |-> "Sabar",
                                 arti |-> "Sabar itu cahaya"], "hadis")]}

\* The intent argument of format_response: None or a detected intent.
RANK_INTENTS ==
    {None,
     [name |-> "doa_makan", type |-> "doa", canonical_query |-> "doa sebelum makan",
      score |-> 1000, matched_keywords |-> <<"makan">>]}

InitRank ==
    /\ NoData /\ Idle
    /\ args \in [results : SeqsUpTo(RESULT_POOL, MaxResults), query : {"makan"},
                 intent : RANK_INTENTS]
    /\ ret = None

Dedup ==
    /\ ret = None
    /\ ret' = [fn |-> "deduplicate_by_id", value |-> deduplicate_by_id(args.results)]
    /\ UNCHANGED <<DOA_DATA, HADIS_DATA, INTENTS, request, response, calls, pool, ranked,
                   intent, stage, args>>

Format ==
    /\ ret = None
    /\ ret' = [fn |-> "format_response",
               value |-> format_response(args.results, args.query, args.intent)]
    /\ UNCHANGED <<DOA_DATA, HADIS_DATA, INTENTS, request, response, calls, pool, ranked,
                   intent, stage, args>>

NextRank == Dedup \/ Format

SpecRank == InitRank /\ [][NextRank]_vars

-----------------------------------------------------------------------------
(* Claims about format_response and deduplicate_by_id (SpecRank). *)

FormatCalled == ret # None /\ ret.fn = "format_response"

\* C1: for a non-empty result list, format_response returns status OK, its
\* data are the first 3 results of the input in input order (all of them when
\* there are fewer), summary.total is the length of the input and
\* summary.showing is min(3, summary.total).
C1_Truncation ==
    (FormatCalled /\ args.results # <<>>) =>
        LET payload == ret.value
            input   == args.results
        IN /\ payload.status = "OK"
           /\ Len(payload.data) <= 3
           /\ Len(payload.data) = (IF Len(input) < 3 THEN Len(input) ELSE 3)
           /\ \A k \in 1..Len(payload.data) : payload.data[k] = input[k]
           /\ payload.summary.total = Len(input)
           /\ payload.summary.showing =
                  (IF payload.summary.total < 3 THEN payload.summary.total ELSE 3)

\* A list of more than 3 results was formatted and 3 of them are shown.
C1_Witness ==
    /\ FormatCalled
    /\ Len(args.results) > 3
    /\ ret.value.status = "OK"
    /\ Len(ret.value.data) = 3
    /\ ret.value.summary.showing = 3

DedupCalled == ret # None /\ ret.fn = "deduplicate_by_id"

\* The positions of seq whose entry has the identifier id.
PositionsOfId(seq, id) == {k \in 1..Len(seq) : item_id_of(seq[k]) = id}

\* Whether sub is seq with some of its entries left out.
RECURSIVE IsSubsequence(_, _)
IsSubsequence(sub, seq) ==
    IF sub = <<>> THEN TRUE
    ELSE IF seq = <<>> THEN FALSE
    ELSE IF Head(sub) = Head(seq) THEN IsSubsequence(Tail(sub), Tail(seq))
    ELSE IsSubsequence(sub, Tail(seq))

\* C2: the list deduplicate_by_id returns has at most one entry per
\* identifier, has exactly one entry for every non-empty identifier of the
\* input, has no entry whose id is missing or empty, and keeps the surviving
\* entries in their input order.
C2_Deduplication ==
    DedupCalled =>
        LET out   == ret.value
            input == args.results
        IN /\ \A i, j \in 1..Len(out) : i # j => item_id_of(out[i]) # item_id_of(out[j])
           /\ \A k \in 1..Len(input) :
                item_id_of(input[k]) # "" =>
                    Cardinality(PositionsOfId(out, item_id_of(input[k]))) = 1
           /\ \A k \in 1..Len(out) : item_id_of(out[k]) # ""
           /\ IsSubsequence(out, input)

\* A list with a repeated identifier, an entry without id and an entry with
\* an empty id was deduplicated, and something is left.
C2_Witness ==
    /\ DedupCalled
    /\ \E i, j \in 1..Len(args.results) :
          i # j /\ item_id_of(args.results[i]) = "2" /\ item_id_of(args.results[j]) = "2"
    /\ \E k \in 1..Len(args.results) : "id" \notin DOMAIN args.results[k].data
    /\ \E k \in 1..Len(args.results) :
          "id" \in DOMAIN args.results[k].data /\ args.results[k].data.id = ""
    /\ Len(ret.value) = 1

-----------------------------------------------------------------------------
(* Claims about calculate_match_score (SpecScore). *)

ScoreCalled == ret # None /\ ret.fn = "calculate_match_score"

\* C4: calculate_match_score returns a value in [0, 1], that is 0..1000
\* thousandths, and returns exactly 0 when the query keyword list is empty,
\* whatever the target text and the keyword phrases are.
C4_ScoreRange ==
    ScoreCalled =>
        /\ ret.score >= 0 /\ ret.score <= 1000
        /\ ret.other_score >= 0 /\ ret.other_score <= 1000
        /\ (args.query_keywords = <<>> => ret.score = 0)

\* A score whose parts add up to more than 1.0 (base overlap 1.0, phrase
\* bonus 0.3, keyword bonus 0.2, partial bonus 0.1) was returned as 1.0.
C4_Witness ==
    /\ ScoreCalled
    /\ args.query_keywords = <<"hari">>
    /\ args.target_text = "Doa malam hari"
    /\ args.target_keywords # <<>>
    /\ ret.score = 1000

\* C10: two calls of calculate_match_score whose query keyword lists hold the
\* same set of keywords, with the same target text and keyword phrases, return
\* the same score.
C10_ScoreOfKeywordSet ==
    (ScoreCalled /\ Range(args.query_keywords) = Range(args.other_keywords)) =>
        ret.score = ret.other_score

\* The part of C10 the code keeps: the same keyword list gives the same score.
C10_SameListSameScore ==
    (ScoreCalled /\ args.query_keywords = args.other_keywords) =>
        ret.score = ret.other_score

-----------------------------------------------------------------------------
(* Claims about search_doa and search_hadis (SpecSearch). *)

SearchReturned == ret # None /\ ret.fn \in {"search_doa", "search_hadis"} /\ ~ret.raised

\* The corpus a search went through, as the items its results carry.
SearchedCorpus ==
    IF ret.fn = "search_doa"
    THEN [i \in 1..Len(DOA_DATA.items) |-> with_source_type(DOA_DATA.items[i], "doa")]
    ELSE [i \in 1..Len(HADIS_DATA.items) |-> with_source_type(HADIS_DATA.items[i], "hadis")]

\* The position of an item in a corpus without repeated items.
PositionIn(corpus, item) == CHOOSE i \in 1..Len(corpus) : corpus[i] = item

\* C5: the list search_doa or search_hadis returns is non-increasing in
\* score, results of equal score are in corpus order, the list has at most
\* top_k entries and every score is above 0.1 (100 thousandths).
C5_Ranking ==
    SearchReturned =>
        LET found == ret.results
        IN /\ \A i, j \in 1..Len(found) : i < j => found[i].score >= found[j].score
           /\ \A i, j \in 1..Len(found) :
                (i < j /\ found[i].score = found[j].score) =>
                    PositionIn(SearchedCorpus, found[i].data)
                        < PositionIn(SearchedCorpus, found[j].data)
           /\ \A i \in 1..Len(found) :
                \E k \in 1..Len(SearchedCorpus) : SearchedCorpus[k] = found[i].data
           /\ Len(found) <= args.top_k
           /\ \A i \in 1..Len(found) : found[i].score > 100

\* A search of a corpus of three matching items, cut to top_k = 2, returned
\* two results of equal score after a corpus item of lower score.
C5_Witness ==
    /\ SearchReturned
    /\ ret.fn = "search_doa"
    /\ Len(DOA_DATA.items) = 3
    /\ args.top_k = 2
    /\ Len(ret.results) = 2
    /\ ret.results[1].score = ret.results[2].score
    /\ calculate_match_score(args.query_keywords, doa_searchable(DOA_DATA.items[1]), <<>>)
           \in 101..(ret.results[2].score - 1)
    /\ PositionIn(SearchedCorpus, ret.results[1].data) = 2
    /\ PositionIn(SearchedCorpus, ret.results[2].data) = 3

-----------------------------------------------------------------------------
(* Claims about the /chat handler (Spec). *)

\* The normalized query of the request and its keywords.
RequestQuery == normalize(get(request, "query", ""))

RequestKeywords == get_keywords(RequestQuery)

\* The request leaves by one of the three early exits.
EarlyExit == RequestQuery = "" \/ RequestQuery \in greetings \/ RequestKeywords = <<>>

\* The functions called so far, in order.
CalledFns == [k \in 1..Len(calls) |-> calls[k].fn]

\* The largest number of a non-empty set of numbers.
Maximum(S) == CHOOSE m \in S : \A x \in S : x <= m

\* C3: for every identifier of the candidate pool, the entry kept after
\* deduplicate_by_id and the final sort has the maximum score among the pool
\* entries of that identifier.
C3_DedupKeepsHighestScore ==
    stage = "respond" =>
        \A k \in 1..Len(pool) :
            LET id == item_id_of(pool[k])
            IN id # "" =>
                \E r \in 1..Len(ranked) :
                    /\ item_id_of(ranked[r]) = id
                    /\ ranked[r].score =
                           Maximum({pool[p].score : p \in PositionsOfId(pool, id)})

\* An item with a data gap: a doa without judul or arti, a hadis without tema
\* or arti.
HasFieldGap ==
    \/ \E i \in 1..Len(DOA_DATA.items) : ~({"judul", "arti"} \subseteq DOMAIN DOA_DATA.items[i])
    \/ \E i \in 1..Len(HADIS_DATA.items) :
          ~({"tema", "arti"} \subseteq DOMAIN HADIS_DATA.items[i])

HasIdGap ==
    \/ \E i \in 1..Len(DOA_DATA.items) : "id" \notin DOMAIN DOA_DATA.items[i]
    \/ \E i \in 1..Len(HADIS_DATA.items) : "id" \notin DOMAIN HADIS_DATA.items[i]

\* C6: when a corpus holds an item that lacks its id or an expected field, a
\* request with usable keywords ends in an OK or ASK payload, not in ERROR.
\* (The intent table is loaded, so that nothing but the gap can fail.)
C6_DataGapSkipped ==
    (stage # "idle" /\ ~EarlyExit /\ INTENTS.type = "dict" /\ (HasFieldGap \/ HasIdGap)) =>
        response.status \in {"OK", "ASK"}

\* The part of C6 the code keeps: an item that lacks only its id is dropped
\* by deduplicate_by_id and the request is answered.
C6_MissingIdSkipped ==
    (stage # "idle" /\ ~EarlyExit /\ INTENTS.type = "dict" /\ HasIdGap /\ ~HasFieldGap) =>
        /\ response.status \in {"OK", "ASK"}
        /\ \A r \in 1..Len(ranked) : "id" \in DOMAIN ranked[r].data

\* C7: a request whose normalized query is empty, is a greeting or has no
\* keywords ends in an ASK payload without data and without a call of
\* detect_intent, search_doa or search_hadis; every other request goes
\* through intent detection, search, dedup and sort and ends in OK or ASK.
C7_RequestStates ==
    stage # "idle" =>
        IF EarlyExit
        THEN /\ response.status = "ASK"
             /\ "data" \notin DOMAIN response
             /\ Range(CalledFns) \cap {"detect_intent", "search_doa", "search_hadis"} = {}
        ELSE /\ response.status \in {"OK", "ASK"}
             /\ CalledFns[1] = "detect_intent"
             /\ {"search_doa", "search_hadis"} \cap Range(CalledFns) # {}
             /\ "deduplicate_by_id" \in Range(CalledFns)

\* The part of C7 the code keeps: the early exits, and that any other request
\* starts with intent detection.
C7_EarlyExits ==
    stage # "idle" =>
        IF EarlyExit
        THEN /\ response.status = "ASK"
             /\ "data" \notin DOMAIN response
             /\ Range(CalledFns) \cap {"detect_intent", "search_doa", "search_hadis"} = {}
             /\ stage \in {"empty_query", "greeting", "no_keywords"}
        ELSE /\ CalledFns[1] = "detect_intent"
             /\ response.status = "ERROR" \/
                    (/\ response.status \in {"OK", "ASK"}
                     /\ {"search_doa", "search_hadis"} \cap Range(CalledFns) # {}
                     /\ "deduplicate_by_id" \in Range(CalledFns))

C8_StrongIntent == intent # None /\ intent.score >= 1000

\* The first search of the intent step of C8: the canonical query's keywords
\* in the intent's corpus.
C8_CanonicalSearch ==
    IF intent.type = "doa" THEN search_doa(get_keywords(intent.canonical_query), 10)
    ELSE search_hadis(get_keywords(intent.canonical_query), 10)

\* The intent step of C8: the canonical search, topped up by the search of
\* the other corpus for the query's keywords when it found fewer than 3.
C8_IntentStep ==
    IF ~C8_StrongIntent THEN <<>>
    ELSE IF Len(C8_CanonicalSearch) >= 3 THEN C8_CanonicalSearch
    ELSE C8_CanonicalSearch \o
             (IF intent.type = "doa" THEN search_hadis(RequestKeywords, 10)
              ELSE search_doa(RequestKeywords, 10))

\* The searches the intent step makes.
C8_IntentCalls ==
    IF ~C8_StrongIntent THEN <<>>
    ELSE <<Call(IF intent.type = "doa" THEN "search_doa" ELSE "search_hadis",
                get_keywords(intent.canonical_query))>> \o
         (IF Len(C8_CanonicalSearch) >= 3 THEN <<>>
          ELSE <<Call(IF intent.type = "doa" THEN "search_hadis" ELSE "search_doa",
                      RequestKeywords)>>)

\* The searches the general search makes.
C8_GeneralCalls ==
    <<Call("search_doa", RequestKeywords), Call("search_hadis", RequestKeywords)>>

\* The searches of the request: its calls between detect_intent and
\* deduplicate_by_id.
C8_Searches == SubSeq(calls, 2, Len(calls) - 2)

\* C8: when no strong intent was detected or the intent step left fewer than
\* 2 results, the pool is search_doa(query keywords) followed by
\* search_hadis(query keywords) and nothing of the intent step; otherwise the
\* pool is the intent step's results and the general search is not run.
C8_CandidatePool ==
    stage = "respond" =>
        IF ~C8_StrongIntent \/ Len(C8_IntentStep) < 2
        THEN /\ pool = search_doa(RequestKeywords, 10) \o search_hadis(RequestKeywords, 10)
             /\ C8_Searches = C8_IntentCalls \o C8_GeneralCalls
        ELSE /\ pool = C8_IntentStep
             /\ C8_Searches = C8_IntentCalls

\* A strong intent whose step left one result: the general search ran and its
\* results, not the intent step's, are the pool.
C8_Witness ==
    /\ stage = "respond"
    /\ C8_StrongIntent
    /\ Len(C8_IntentStep) = 1
    /\ Len(pool) = 1
    /\ pool # C8_IntentStep
    /\ response.status = "OK"

\* A strong intent whose canonical search found 3 results: no top-up, no
\* general search.
C8_ReachedNoTopUp ==
    /\ stage = "respond" /\ C8_StrongIntent
    /\ Len(C8_CanonicalSearch) >= 3 /\ Len(C8_Searches) = 1

\* No strong intent: the general search alone.
C8_ReachedNoIntent ==
    /\ stage = "respond" /\ ~C8_StrongIntent /\ pool # <<>> /\ Len(C8_Searches) = 2

\* What one trigger phrase adds to its rule's score, by C9.
C9_TriggerScore(keyword, query) ==
    IF Contains(lower(keyword), lower(query)) THEN 1000
    ELSE IF Range(get_keywords(keyword)) \cap Range(get_keywords(query)) # {} THEN 500
    ELSE 0

C9_RuleScore(rule, query) ==
    SumSeq([i \in 1..Len(rule.keywords) |-> C9_TriggerScore(rule.keywords[i], query)])

C9_Scores == [i \in 1..Len(INTENTS.items) |-> C9_RuleScore(INTENTS.items[i], RequestQuery)]

C9_BestScore == Maximum(Range(C9_Scores) \cup {0})

\* detect_intent was called and returned.
IntentDetected == stage \in {"respond", "error"} /\ INTENTS.type = "dict"

\* C9: detect_intent returns the rule of maximum score (1.0 per trigger phrase
\* contained in the query, else 0.5 per trigger phrase sharing a stemmed
\* keyword with it), the earliest rule of that score in table order, and
\* returns none exactly when the maximum is below 0.5.
C9_IntentIsBestRule ==
    IntentDetected =>
        IF C9_BestScore < 500 THEN intent = None
        ELSE /\ intent # None
             /\ intent.score = C9_BestScore
             /\ \E i \in 1..Len(INTENTS.items) :
                   /\ INTENTS.items[i].name = intent.name
                   /\ INTENTS.items[i].type = intent.type
                   /\ INTENTS.items[i].canonical_query = intent.canonical_query
                   /\ C9_Scores[i] = C9_BestScore
                   /\ \A j \in 1..(i - 1) : C9_Scores[j] < C9_BestScore

\* Two rules tie at 1.5 and the first of the table, hadis_sabar, is returned.
C9_Witness ==
    /\ IntentDetected
    /\ Len(INTENTS.items) = 2
    /\ C9_Scores[1] = 1500 /\ C9_Scores[2] = 1500
    /\ intent # None
    /\ intent.name = "hadis_sabar"
    /\ INTENTS.items[1].name = "hadis_sabar"

\* detect_intent returned none, and returned an intent that is not strong.
C9_ReachedNone == IntentDetected /\ intent = None /\ stage = "respond"

C9_ReachedWeak == IntentDetected /\ intent # None /\ intent.score = 500

=============================================================================
